---- MODULE Spec2Model ----
(* DownDetector: the monitoring loop of monitor.py (start_monitoring) with    *)
(* its classifiers, its two notification channels and the configuration of    *)
(* config.py.  Strings are sequences of word tokens; `in` on strings is        *)
(* containment of a contiguous run of tokens.                                  *)
EXTENDS Integers, Sequences, FiniteSets, TLC

VARIABLES
    pc,              \* position of start_monitoring
    config,          \* the Config object (config.py:39-67)
    site_states,     \* monitor.py:299, url -> last stored status
    driver,          \* the browser: "none", "open", "closed"
    quit_calls,      \* number of driver.quit() calls
    get_calls,       \* number of driver.get() calls
    cycle,           \* number of cycles started
    idx,             \* position of the for loop in TARGETS
    current_status,  \* local of start_monitoring
    last_status,     \* local of start_monitoring
    step_result,     \* what the step in progress printed for its target
    sent,            \* channel attempts made by the step in progress
    email_calls,     \* url -> number of SMTP sends attempted for it
    slack_calls,     \* url -> number of webhook posts attempted for it
    exc,             \* the exception that left the loop, "none" if none
    raised_at,       \* the position at which exc was raised
    title,           \* driver.title of the page the browser last loaded
    observed,        \* url -> the status of its last successful classification
    changes,         \* url -> number of times that status changed
    failed,          \* url -> some channel attempt for it has failed
    skipped,         \* url -> the status stored for it when its latest step
                     \* without a classification ended, "never" if none
    arg_page,        \* a classifier called on its own: the page it is given,
    arg_keywords,    \* the keyword list it is given,
    called,          \* the classifier called, "none" before the call
    ret              \* and what it returned

vars == <<pc, config, site_states, driver, quit_calls, get_calls, cycle, idx,
          current_status, last_status, step_result, sent, email_calls,
          slack_calls, exc, raised_at, title, observed, changes, failed,
          skipped, arg_page, arg_keywords, called, ret>>

\* the classifier called on its own, untouched by start_monitoring
call == <<arg_page, arg_keywords, called, ret>>

\* what the pages did and what reached the channels: written by the steps
\* below, read by no step
history == <<observed, changes, failed, skipped>>

-----------------------------------------------------------------------------
(* Bounds *)

MaxCycles == 3

\* pages given to a classifier called on its own are made of at most
\* MaxParts pages of Pages, one after the other
MaxParts == 3

-----------------------------------------------------------------------------
(* Strings *)

LowerTok(t) ==
    CASE t = "Just" -> "just"
      [] t = "All" -> "all"
      [] t = "Systems" -> "systems"
      [] t = "Operational" -> "operational"
      [] t = "Partial" -> "partial"
      [] t = "Outage" -> "outage"
      [] t = "Status" -> "status"
      [] OTHER -> t

Lower(s) == [i \in 1..Len(s) |-> LowerTok(s[i])]

Contains(phrase, s) ==
    \E i \in 0..(Len(s) - Len(phrase)) :
        \A j \in 1..Len(phrase) : s[i + j] = phrase[j]

-----------------------------------------------------------------------------
(* config.py *)

\* config.py:131-148 with one target per branch of monitor.py:347-357: a
\* downdetector target, a generic target, and a target whose mode is neither
TARGETS ==
    << [name |-> "Internet Archive", url |-> "u_archive",
        mode |-> "downdetector"],
       [name |-> "OpenAI API", url |-> "u_openai", mode |-> "generic",
        good_keywords |-> << <<"all", "systems", "operational">>,
                             <<"operational">> >>],
       [name |-> "Custom", url |-> "u_custom", mode |-> "ping"] >>

Urls == {TARGETS[i].url : i \in 1..Len(TARGETS)}

Configs ==
    [email_sender : {"", "me@example.com"},
     email_password : {"", "secret"},
     email_receivers : {<<>>, <<"a@example.com", "b@example.com">>},
     slack_webhook_url : {"", "https://hooks.example/T"},
     check_delay : {-1, 10},
     loop_delay : {-1, 60}]

\* slack_enabled that does not look at the webhook URL
slack_enabled_Always(c) == TRUE

slack_enabled(c) == c.slack_webhook_url # ""

\* validate without the test of config.py:86
validate_errors_ReceiversUnchecked(c) ==
    (IF c.email_sender = "" THEN {"EMAIL_SENDER"} ELSE {})
    \cup (IF c.email_password = "" THEN {"EMAIL_PASSWORD"} ELSE {})

validate_errors(c) ==
    (IF c.email_sender = "" THEN {"EMAIL_SENDER"} ELSE {})
    \cup (IF c.email_password = "" THEN {"EMAIL_PASSWORD"} ELSE {})
    \cup (IF c.email_receivers = <<>> THEN {"EMAIL_RECEIVERS"} ELSE {})

-----------------------------------------------------------------------------
(* Classifiers *)

\* check_downdetector with the phrases tested from the most severe down
check_downdetector_SeverityFirst(page_source) ==
    IF Contains(<<"indicate", "problems">>, page_source)
    THEN "OUTAGE DETECTED"
    ELSE IF Contains(<<"possible", "problems">>, page_source)
    THEN "POSSIBLE ISSUES"
    ELSE IF Contains(<<"indicate", "no", "current", "problems">>, page_source)
    THEN "OPERATIONAL"
    ELSE "SUSPICIOUS / UNKNOWN"

check_downdetector(page_source) ==
    IF Contains(<<"indicate", "no", "current", "problems">>, page_source)
    THEN "OPERATIONAL"
    ELSE IF Contains(<<"possible", "problems">>, page_source)
    THEN "POSSIBLE ISSUES"
    ELSE IF Contains(<<"indicate", "problems">>, page_source)
    THEN "OUTAGE DETECTED"
    ELSE "SUSPICIOUS / UNKNOWN"

\* check_generic with the return of monitor.py:220 inside the loop
check_generic_from_FirstKeywordOnly(page_source, good_keywords, k) ==
    IF k > Len(good_keywords) THEN "POTENTIAL OUTAGE"
    ELSE IF Contains(Lower(good_keywords[k]), page_source) THEN "OPERATIONAL"
    ELSE "POTENTIAL OUTAGE"

RECURSIVE check_generic_from(_, _, _)
check_generic_from(page_source, good_keywords, k) ==
    IF k > Len(good_keywords) THEN "POTENTIAL OUTAGE"
    ELSE IF Contains(Lower(good_keywords[k]), page_source) THEN "OPERATIONAL"
    ELSE check_generic_from(page_source, good_keywords, k + 1)

check_generic(page_source, good_keywords) ==
    check_generic_from(page_source, good_keywords, 1)

-----------------------------------------------------------------------------
(* What the browser may return *)

Pages ==
    { <<"user", "reports", "indicate", "no", "current", "problems">>,
      <<"user", "reports", "indicate", "possible", "problems">>,
      <<"user", "reports", "indicate", "problems">>,
      <<"All", "Systems", "Operational">>,
      <<"Partial", "Outage">> }

Titles == { <<"Just", "a", "moment">>, <<"Status">> }

EmailOutcomes == {"sent", "SMTPAuthenticationError", "SMTPException", "Exception"}

SlackOutcomes == {"200", "not200", "Timeout", "RequestException"}

-----------------------------------------------------------------------------
(* start_monitoring *)

InLoop == {"while", "for", "check", "email", "slack", "store",
           "check_delay", "loop_delay"}

Init ==
    /\ pc = "validate"
    /\ config \in Configs
    /\ site_states = <<>>
    /\ driver = "none"
    /\ quit_calls = 0
    /\ get_calls = 0
    /\ cycle = 0
    /\ idx = 0
    /\ current_status = "unset"
    /\ last_status = "unset"
    /\ step_result = "none"
    /\ sent = <<>>
    /\ email_calls = [u \in Urls |-> 0]
    /\ slack_calls = [u \in Urls |-> 0]
    /\ exc = "none"
    /\ raised_at = "none"
    /\ title = <<>>
    /\ observed = [u \in Urls |-> "initial"]
    /\ changes = [u \in Urls |-> 0]
    /\ failed = [u \in Urls |-> FALSE]
    /\ skipped = [u \in Urls |-> "never"]
    /\ arg_page = <<>>
    /\ arg_keywords = <<>>
    /\ called = "none"
    /\ ret = "none"

validate ==
    /\ pc = "validate"
    /\ IF validate_errors(config) # {}
       THEN /\ pc' = "exit"
            /\ exc' = "SystemExit"
            /\ raised_at' = "validate"
       ELSE /\ pc' = "init_states"
            /\ UNCHANGED <<exc, raised_at>>
    /\ UNCHANGED <<call, config, site_states, driver, quit_calls, get_calls, cycle,
                   idx, current_status, last_status, step_result, sent,
                   email_calls, slack_calls, title, history>>

init_site_states ==
    /\ pc = "init_states"
    /\ site_states' = [u \in Urls |-> "initial"]
    /\ pc' = "create_browser"
    /\ UNCHANGED <<call, config, driver, quit_calls, get_calls, cycle, idx,
                   current_status, last_status, step_result, sent,
                   email_calls, slack_calls, exc, raised_at, title,
                   history>>

create_browser ==
    /\ pc = "create_browser"
    /\ \E ok \in BOOLEAN :
          IF ok
          THEN /\ driver' = "open"
               /\ pc' = "while"
               /\ UNCHANGED <<exc, raised_at>>
          ELSE /\ driver' = driver
               /\ pc' = "exit"
               /\ exc' = "WebDriverException"
               /\ raised_at' = "create_browser"
    /\ UNCHANGED <<call, config, site_states, quit_calls, get_calls, cycle, idx,
                   current_status, last_status, step_result, sent,
                   email_calls, slack_calls, title, history>>

\* the store of monitor.py:299 built inside the while loop
while_true_ResetsStates ==
    /\ pc = "while"
    /\ cycle < MaxCycles
    /\ cycle' = cycle + 1
    /\ idx' = 1
    /\ pc' = "for"
    /\ site_states' = [u \in Urls |-> "initial"]
    /\ UNCHANGED <<call, config, driver, quit_calls, get_calls,
                   current_status, last_status, step_result, sent,
                   email_calls, slack_calls, exc, raised_at, title,
                   history>>

while_true ==
    /\ pc = "while"
    /\ cycle < MaxCycles
    /\ cycle' = cycle + 1
    /\ idx' = 1
    /\ pc' = "for"
    /\ UNCHANGED <<call, config, site_states, driver, quit_calls, get_calls,
                   current_status, last_status, step_result, sent,
                   email_calls, slack_calls, exc, raised_at, title,
                   history>>

\* for_target that leaves the loop one target early
for_target_StopsEarly ==
    /\ pc = "for"
    /\ pc' = IF idx < Len(TARGETS) THEN "check" ELSE "loop_delay"
    /\ UNCHANGED <<call, config, site_states, driver, quit_calls, get_calls, cycle,
                   idx, current_status, last_status, step_result, sent,
                   email_calls, slack_calls, exc, raised_at, title,
                   history>>

for_target ==
    /\ pc = "for"
    /\ pc' = IF idx <= Len(TARGETS) THEN "check" ELSE "loop_delay"
    /\ UNCHANGED <<call, config, site_states, driver, quit_calls, get_calls, cycle,
                   idx, current_status, last_status, step_result, sent,
                   email_calls, slack_calls, exc, raised_at, title,
                   history>>

\* detect that alerts only when a target leaves OPERATIONAL
detect_AlertOnLeavingOperational(cur, last) ==
    IF cur # last
    THEN (IF last = "OPERATIONAL" THEN "email" ELSE "store")
    ELSE "check_delay"

\* detect without the test of monitor.py:369
detect_AlertOnFirst(cur, last) ==
    IF cur # last THEN "email" ELSE "check_delay"

\* detect that raises no alert when the service recovers
detect_NoAlertOnRecovery(cur, last) ==
    IF cur # last
    THEN (IF last # "initial" /\ cur # "OPERATIONAL" THEN "email" ELSE "store")
    ELSE "check_delay"

\* detect with the alert outside the test of monitor.py:366
detect_AlertEveryCheck(cur, last) ==
    IF last # "initial" THEN "email"
    ELSE IF cur # last THEN "store" ELSE "check_delay"

\* detect with the store update of monitor.py:379 inside the test of line 369
detect_StoreOnlyOnAlert(cur, last) ==
    IF cur # last /\ last # "initial" THEN "email" ELSE "check_delay"

\* monitor.py:366-369: where the step goes after comparing the two statuses
detect(cur, last) ==
    IF cur # last
    THEN (IF last # "initial" THEN "email" ELSE "store")
    ELSE "check_delay"

\* monitor.py:353: target.get('good_keywords', ['operational'])
good_keywords_of(target) ==
    IF "good_keywords" \in DOMAIN target THEN target.good_keywords
    ELSE << <<"operational">> >>

\* classify that gives an unknown mode a status instead of skipping it
classify_UnknownModeAsStatus(target, page_source) ==
    IF target.mode = "downdetector" THEN check_downdetector(page_source)
    ELSE IF target.mode = "generic"
    THEN check_generic(page_source, good_keywords_of(target))
    ELSE "SUSPICIOUS / UNKNOWN"

\* monitor.py:347-357: the status of the page, "continue" on an unknown mode
classify(target, page_source) ==
    IF target.mode = "downdetector" THEN check_downdetector(page_source)
    ELSE IF target.mode = "generic"
    THEN check_generic(page_source, good_keywords_of(target))
    ELSE "continue"

\* monitor.py:342: the Cloudflare challenge page
blocked(page_title) == Contains(<<"just", "a", "moment">>, Lower(page_title))

\* a step without the handler of monitor.py:381
except_Exception_Propagate == "finally"

\* monitor.py:381-383: where an Exception raised in the step is taken
except_Exception == "check_delay"

check_target ==
    /\ pc = "check"
    /\ get_calls' = get_calls + 1
    /\ sent' = <<>>
    /\ \E raises \in BOOLEAN, page \in Pages, page_title \in Titles :
          LET target == TARGETS[idx]
              page_source == Lower(page)
              status == classify(target, page_source)
              skip == [skipped EXCEPT ![target.url] = site_states[target.url]]
          IN  IF raises
              THEN /\ step_result' = "error"
                   /\ pc' = except_Exception
                   /\ IF pc' = "finally"
                      THEN exc' = "Exception" /\ raised_at' = "check"
                      ELSE UNCHANGED <<exc, raised_at>>
                   /\ skipped' = skip
                   /\ UNCHANGED <<idx, current_status, last_status, title,
                                  observed, changes, failed>>
              ELSE IF blocked(page_title)
              THEN /\ step_result' = "blocked"
                   /\ title' = page_title
                   /\ pc' = "for"
                   /\ idx' = idx + 1
                   /\ skipped' = skip
                   /\ UNCHANGED <<current_status, last_status, exc, raised_at,
                                  observed, changes, failed>>
              ELSE IF status = "continue"
              THEN /\ step_result' = "unknown_mode"
                   /\ title' = page_title
                   /\ pc' = "for"
                   /\ idx' = idx + 1
                   /\ skipped' = skip
                   /\ UNCHANGED <<current_status, last_status, exc, raised_at,
                                  observed, changes, failed>>
              ELSE /\ step_result' = "classified"
                   /\ title' = page_title
                   /\ current_status' = status
                   /\ last_status' = site_states[target.url]
                   /\ pc' = detect(status, site_states[target.url])
                   /\ observed' = [observed EXCEPT ![target.url] = status]
                   /\ changes' = [changes EXCEPT ![target.url] =
                                    IF observed[target.url] \notin
                                           {"initial", status}
                                    THEN @ + 1 ELSE @]
                   /\ UNCHANGED <<idx, exc, raised_at, failed, skipped>>
    /\ UNCHANGED <<call, config, site_states, driver, quit_calls, cycle,
                   email_calls, slack_calls>>

\* monitor.py:373 and 376: the arguments of the two channel calls
alert(target, status) ==
    [site_name |-> target.name, status |-> status, url |-> target.url,
     extra_info |-> ""]

\* a step that writes the store entry right after the email call
after_email_StoreBeforeSlack(outcome) == "store"

\* send_email_alert without its last handler (monitor.py:152): the error
\* reaches the handler of the step
after_email_Propagate(outcome) ==
    IF outcome = "Exception" THEN "check_delay" ELSE "slack"

\* monitor.py:138-153: every outcome of the SMTP session returns to the caller
after_email(outcome) == "slack"

\* monitor.py:70-86: every outcome of the webhook post returns to the caller
after_slack(outcome) == "store"

send_email_alert ==
    /\ pc = "email"
    /\ \E outcome \in EmailOutcomes :
          /\ sent' = Append(sent, [channel |-> "email",
                                   msg |-> alert(TARGETS[idx],
                                                 current_status),
                                   ok |-> (outcome = "sent")])
          /\ failed' = [failed EXCEPT ![TARGETS[idx].url] =
                          @ \/ outcome # "sent"]
          /\ pc' = after_email(outcome)
    /\ email_calls' = [email_calls EXCEPT ![TARGETS[idx].url] = @ + 1]
    /\ UNCHANGED <<call, config, site_states, driver, quit_calls, get_calls, cycle,
                   idx, current_status, last_status, step_result,
                   slack_calls, exc, raised_at, title, observed, changes,
                   skipped>>

send_slack_alert ==
    /\ pc = "slack"
    /\ IF ~slack_enabled(config)
       THEN /\ pc' = "store"
            /\ UNCHANGED <<sent, slack_calls, failed>>
       ELSE /\ \E outcome \in SlackOutcomes :
                  /\ sent' = Append(sent, [channel |-> "slack",
                                           msg |-> alert(TARGETS[idx],
                                                         current_status),
                                           ok |-> (outcome = "200")])
                  /\ failed' = [failed EXCEPT ![TARGETS[idx].url] =
                                  @ \/ outcome # "200"]
                  /\ pc' = after_slack(outcome)
            /\ slack_calls' = [slack_calls EXCEPT ![TARGETS[idx].url] = @ + 1]
    /\ UNCHANGED <<call, config, site_states, driver, quit_calls, get_calls, cycle,
                   idx, current_status, last_status, step_result,
                   email_calls, exc, raised_at, title, observed, changes,
                   skipped>>

\* update_state that writes the entry of the first target, whatever the target
update_state_FirstKey ==
    /\ pc = "store"
    /\ site_states' = [site_states EXCEPT ![TARGETS[1].url] = current_status]
    /\ pc' = "check_delay"
    /\ UNCHANGED <<call, config, driver, quit_calls, get_calls, cycle, idx,
                   current_status, last_status, step_result, sent,
                   email_calls, slack_calls, exc, raised_at, title, history>>

\* update_state that keeps the old status when a channel attempt failed
update_state_UnlessSendFailed ==
    /\ pc = "store"
    /\ site_states' = IF \A i \in 1..Len(sent) : sent[i].ok
                      THEN [site_states EXCEPT
                                ![TARGETS[idx].url] = current_status]
                      ELSE site_states
    /\ pc' = "check_delay"
    /\ UNCHANGED <<call, config, driver, quit_calls, get_calls, cycle, idx,
                   current_status, last_status, step_result, sent,
                   email_calls, slack_calls, exc, raised_at, title, history>>

\* monitor.py:379
update_state ==
    /\ pc = "store"
    /\ site_states' = [site_states EXCEPT ![TARGETS[idx].url] = current_status]
    /\ pc' = "check_delay"
    /\ UNCHANGED <<call, config, driver, quit_calls, get_calls, cycle, idx,
                   current_status, last_status, step_result, sent,
                   email_calls, slack_calls, exc, raised_at, title, history>>

\* monitor.py:386; time.sleep raises ValueError on a negative length
sleep_check_delay ==
    /\ pc = "check_delay"
    /\ IF config.check_delay < 0
       THEN /\ pc' = "finally"
            /\ exc' = "ValueError"
            /\ raised_at' = "check_delay"
            /\ idx' = idx
       ELSE /\ pc' = "for"
            /\ idx' = idx + 1
            /\ UNCHANGED <<exc, raised_at>>
    /\ UNCHANGED <<call, config, site_states, driver, quit_calls, get_calls, cycle,
                   current_status, last_status, step_result, sent,
                   email_calls, slack_calls, title, history>>

\* monitor.py:390
sleep_loop_delay ==
    /\ pc = "loop_delay"
    /\ IF config.loop_delay < 0
       THEN /\ pc' = "finally"
            /\ exc' = "ValueError"
            /\ raised_at' = "loop_delay"
       ELSE /\ pc' = "while"
            /\ UNCHANGED <<exc, raised_at>>
    /\ UNCHANGED <<call, config, site_states, driver, quit_calls, get_calls, cycle,
                   idx, current_status, last_status, step_result, sent,
                   email_calls, slack_calls, title, history>>

\* Ctrl+C: KeyboardInterrupt is raised wherever the loop is; it is no
\* Exception, so neither monitor.py:381 nor the channels' handlers catch it
KeyboardInterrupt ==
    /\ pc \in InLoop
    /\ exc' = "KeyboardInterrupt"
    /\ raised_at' = pc
    /\ pc' = "except_KeyboardInterrupt"
    /\ UNCHANGED <<call, config, site_states, driver, quit_calls, get_calls, cycle,
                   idx, current_status, last_status, step_result, sent,
                   email_calls, slack_calls, title, history>>

\* a handler that swallows the interrupt: the loop goes on where it was
except_KeyboardInterrupt_Resume ==
    /\ pc = "except_KeyboardInterrupt"
    /\ pc' = raised_at
    /\ UNCHANGED <<call, config, site_states, driver, quit_calls, get_calls, cycle,
                   idx, current_status, last_status, step_result, sent,
                   email_calls, slack_calls, exc, raised_at, title, history>>

\* monitor.py:392-394
except_KeyboardInterrupt ==
    /\ pc = "except_KeyboardInterrupt"
    /\ pc' = "finally"
    /\ UNCHANGED <<call, config, site_states, driver, quit_calls, get_calls, cycle,
                   idx, current_status, last_status, step_result, sent,
                   email_calls, slack_calls, exc, raised_at, title, history>>

\* driver.quit() in the KeyboardInterrupt handler instead of a finally block
finally_OnlyOnInterrupt ==
    /\ pc = "finally"
    /\ IF exc = "KeyboardInterrupt"
       THEN driver' = "closed" /\ quit_calls' = quit_calls + 1
       ELSE UNCHANGED <<driver, quit_calls>>
    /\ pc' = "exit"
    /\ UNCHANGED <<call, config, site_states, get_calls, cycle, idx,
                   current_status, last_status, step_result, sent,
                   email_calls, slack_calls, exc, raised_at, title, history>>

\* monitor.py:396-400
finally ==
    /\ pc = "finally"
    /\ driver' = "closed"
    /\ quit_calls' = quit_calls + 1
    /\ pc' = "exit"
    /\ UNCHANGED <<call, config, site_states, get_calls, cycle, idx,
                   current_status, last_status, step_result, sent,
                   email_calls, slack_calls, exc, raised_at, title, history>>

Next ==
    \/ validate
    \/ init_site_states
    \/ create_browser
    \/ while_true
    \/ for_target
    \/ check_target
    \/ send_email_alert
    \/ send_slack_alert
    \/ update_state
    \/ sleep_check_delay
    \/ sleep_loop_delay
    \/ KeyboardInterrupt
    \/ except_KeyboardInterrupt
    \/ finally

Spec == Init /\ [][Next]_vars

\* every step of start_monitoring but the arrival of Ctrl+C
Proceed ==
    \/ validate
    \/ init_site_states
    \/ create_browser
    \/ while_true
    \/ for_target
    \/ check_target
    \/ send_email_alert
    \/ send_slack_alert
    \/ update_state
    \/ sleep_check_delay
    \/ sleep_loop_delay
    \/ except_KeyboardInterrupt
    \/ finally

\* the interpreter keeps running start_monitoring: every fetch, send and
\* sleep returns or raises
FairSpec == Spec /\ WF_vars(Proceed)

-----------------------------------------------------------------------------
(* The classifiers called on their own, as monitor.py:339-354 calls them *)

RECURSIVE Joined(_)
Joined(n) ==
    IF n = 0 THEN { <<>> }
    ELSE Joined(n - 1) \cup {s \o p : s \in Joined(n - 1), p \in Pages}

KeywordLists ==
    { <<>>,
      << <<"operational">> >>,
      << <<"Operational">> >>,
      << <<"all", "systems", "go">>, <<"operational">> >> }

InitClassify ==
    /\ arg_page \in Joined(MaxParts)
    /\ arg_keywords \in KeywordLists
    /\ called = "none"
    /\ ret = "none"
    /\ pc = "classify"
    /\ config = [email_sender |-> "me@example.com",
                 email_password |-> "secret",
                 email_receivers |-> <<"a@example.com", "b@example.com">>,
                 slack_webhook_url |-> "",
                 check_delay |-> 10,
                 loop_delay |-> 60]
    /\ site_states = [u \in Urls |-> "initial"]
    /\ driver = "open"
    /\ quit_calls = 0
    /\ get_calls = 0
    /\ cycle = 0
    /\ idx = 0
    /\ current_status = "unset"
    /\ last_status = "unset"
    /\ step_result = "none"
    /\ sent = <<>>
    /\ email_calls = [u \in Urls |-> 0]
    /\ slack_calls = [u \in Urls |-> 0]
    /\ exc = "none"
    /\ raised_at = "none"
    /\ title = <<>>
    /\ observed = [u \in Urls |-> "initial"]
    /\ changes = [u \in Urls |-> 0]
    /\ failed = [u \in Urls |-> FALSE]
    /\ skipped = [u \in Urls |-> "never"]

loop == <<pc, config, site_states, driver, quit_calls, get_calls, cycle, idx,
          current_status, last_status, step_result, sent, email_calls,
          slack_calls, exc, raised_at, title, history>>

\* monitor.py:339 and 349
call_check_downdetector ==
    /\ called = "none"
    /\ called' = "check_downdetector"
    /\ ret' = check_downdetector(Lower(arg_page))
    /\ UNCHANGED <<arg_page, arg_keywords, loop>>

\* monitor.py:339 and 354
call_check_generic ==
    /\ called = "none"
    /\ called' = "check_generic"
    /\ ret' = check_generic(Lower(arg_page), arg_keywords)
    /\ UNCHANGED <<arg_page, arg_keywords, loop>>

NextClassify ==
    \/ call_check_downdetector
    \/ call_check_generic

SpecClassify == InitClassify /\ [][NextClassify]_vars

-----------------------------------------------------------------------------
(* Properties *)

\* the step in progress has classified its target, TARGETS[idx]
Classified ==
    /\ pc \in {"email", "slack", "store", "check_delay"}
    /\ step_result = "classified"

\* the step of TARGETS[idx] has ended and had classified it
Ended == pc = "check_delay" /\ step_result = "classified"

url == TARGETS[idx].url

Attempts(channel) == {i \in 1..Len(sent) : sent[i].channel = channel}

Carries(msg, status) ==
    status \in {msg.site_name, msg.status, msg.url, msg.extra_info}

\* C1: a step that classifies a target whose stored status is "initial"
\* calls no channel, neither in this step nor before it, and ends with the
\* classified status stored.
C1_FirstClassificationSilent ==
    (Classified /\ last_status = "initial") =>
        /\ pc \in {"store", "check_delay"}
        /\ sent = <<>>
        /\ email_calls[url] = 0
        /\ slack_calls[url] = 0
        /\ (pc = "check_delay" => site_states[url] = current_status)

C1_Witness ==
    /\ Ended
    /\ last_status = "initial"
    /\ current_status = "OUTAGE DETECTED"
    /\ site_states[url] = "OUTAGE DETECTED"
    /\ sent = <<>>

C3_SameStatusSilent ==
    (Classified /\ current_status = last_status) =>
        /\ pc = "check_delay"
        /\ sent = <<>>
        /\ site_states[url] = current_status

C3_Witness ==
    /\ Ended
    /\ current_status = last_status
    /\ current_status = "OUTAGE DETECTED"
    /\ email_calls[url] = 1

\* C4: between steps, the number of channel calls made for a target equals the
\* number of times its classified status changed, whether or not a call
\* failed: a repeated status and a failed send add no call.
C4_OncePerTransition ==
    /\ pc \in {"while", "for", "check", "slack", "store", "check_delay",
               "loop_delay"}
          => \A u \in Urls : email_calls[u] = changes[u]
    /\ pc \in {"while", "for", "check", "store", "check_delay", "loop_delay"}
          => \A u \in Urls :
                slack_calls[u] = (IF slack_enabled(config) THEN changes[u]
                                  ELSE 0)

C4_Witness ==
    /\ Ended
    /\ current_status = last_status
    /\ sent = <<>>
    /\ failed[url]
    /\ email_calls[url] = 1
    /\ changes[url] = 1

\* C5: when a step that classified its target ends, the target's store entry
\* is the classified status, with or without channel calls in the step.
C5_StoreFollowsClassification ==
    Ended => /\ site_states[url] = current_status
             /\ site_states[url] = observed[url]

C5_Witness ==
    /\ Ended
    /\ \E i \in 1..Len(sent) : ~sent[i].ok
    /\ current_status # last_status
    /\ site_states[url] = current_status

\* the title of the challenge page, as the browser reports it
Challenge == <<"Just", "a", "moment">>

\* C6: a step that ends without a classification (the fetch raises, the page
\* is the challenge page, the mode is unknown) goes on to the next target
\* with the store, the channels and the last classified statuses as they
\* were; a step that classifies compares with the status of the target's last
\* classification, whatever steps without one lie in between.
C6_SkippedStepLeavesStore ==
    [][(pc = "check" /\ pc' # "except_KeyboardInterrupt") =>
          /\ (\/ step_result' = "error"
              \/ (step_result' # "error" /\ title' = Challenge)
              \/ TARGETS[idx].mode \notin {"downdetector", "generic"})
                => /\ pc' \in {"for", "check_delay"}
                   /\ site_states' = site_states
                   /\ observed' = observed
                   /\ sent' = <<>>
                   /\ email_calls' = email_calls
                   /\ slack_calls' = slack_calls
          /\ step_result' = "classified"
                => last_status' = observed[TARGETS[idx].url]]_vars

C6_Witness ==
    /\ Ended
    /\ cycle = 3
    /\ idx = 1
    /\ skipped[url] = "OUTAGE DETECTED"
    /\ last_status = "OUTAGE DETECTED"
    /\ current_status = "OPERATIONAL"
    /\ email_calls[url] = 1

\* C7: the loop is left only by a KeyboardInterrupt or by the ValueError of
\* a sleep, never by an error of a target's step; as long as it is not left,
\* every target of every cycle started has been fetched, whatever the
\* results of the steps before it.
C7_TargetErrorsNeverStopLoop ==
    /\ (pc \in {"except_KeyboardInterrupt", "finally"}
        \/ (pc = "exit" /\ driver = "closed"))
          => \/ exc = "KeyboardInterrupt"
             \/ (exc = "ValueError" /\ raised_at \in {"check_delay",
                                                      "loop_delay"})
    /\ pc \in {"for", "check", "loop_delay"}
          => get_calls = (cycle - 1) * Len(TARGETS) + idx - 1
    /\ pc \in {"email", "slack", "store", "check_delay"}
          => get_calls = (cycle - 1) * Len(TARGETS) + idx

C7_Witness ==
    /\ pc = "check"
    /\ cycle = 2
    /\ idx = 2
    /\ step_result = "error"
    /\ skipped["u_custom"] = "initial"
    /\ skipped["u_openai"] = "initial"

\* C8: once the channel calls of a transition have returned, the email
\* channel has been called first and, when Slack is enabled, the Slack
\* channel second, whatever the outcome of the email call.
C8_ChannelsIndependent ==
    (/\ Classified
     /\ pc \in {"store", "check_delay"}
     /\ current_status # last_status
     /\ last_status # "initial")
        => /\ Attempts("email") = {1}
           /\ slack_enabled(config) => Attempts("slack") = {2}

C8_Witness ==
    /\ pc = "store"
    /\ Len(sent) = 2
    /\ sent[1].channel = "email" /\ ~sent[1].ok
    /\ sent[2].channel = "slack" /\ sent[2].ok

\* C9: driver.quit() is called at most once, exactly once on every way out
\* of the loop, and once the browser is closed the process is at its exit and
\* fetches nothing.
C9_BrowserReleasedOnce ==
    /\ [](quit_calls <= 1)
    /\ [](driver = "closed" <=> quit_calls = 1)
    /\ [](driver = "none" => get_calls = 0)
    /\ [](pc = "exit" =>
            IF exc \in {"SystemExit", "WebDriverException"}
            THEN driver = "none" ELSE driver = "closed")
    /\ [](driver = "closed" => pc = "exit")
    /\ [][driver = "closed" => get_calls' = get_calls]_vars

C9_Witness ==
    /\ pc = "exit"
    /\ exc = "ValueError"
    /\ raised_at = "loop_delay"
    /\ quit_calls = 1
    /\ get_calls = Len(TARGETS)

MissingRequired ==
    \/ config.email_sender = ""
    \/ config.email_password = ""
    \/ config.email_receivers = <<>>

\* C11: with a required setting missing the process never gets past
\* validate: it exits there with SystemExit, no store, no browser and no
\* fetch; SystemExit is raised for no other reason, a missing Slack webhook
\* included.
C11_InvalidConfigNeverRuns ==
    /\ MissingRequired =>
          /\ pc \in {"validate", "exit"}
          /\ (pc = "exit" => exc = "SystemExit")
          /\ driver = "none"
          /\ site_states = <<>>
          /\ get_calls = 0
    /\ exc = "SystemExit" => MissingRequired
    /\ (~MissingRequired /\ pc = "exit") => raised_at # "validate"

C11_Witness ==
    /\ pc = "exit"
    /\ exc = "SystemExit"
    /\ config.email_sender # ""
    /\ config.email_password # ""
    /\ config.email_receivers = <<>>
    /\ config.slack_webhook_url # ""
    /\ driver = "none"

\* the phrases of monitor.py:183-187 in the page given to the classifier
NoProblems ==
    Contains(<<"indicate", "no", "current", "problems">>, Lower(arg_page))

PossibleProblems == Contains(<<"possible", "problems">>, Lower(arg_page))

Problems == Contains(<<"indicate", "problems">>, Lower(arg_page))

\* C12: check_downdetector returns the status of the first phrase present in
\* the order no-problems, possible-problems, problems, wherever the phrases
\* stand in the page, and "SUSPICIOUS / UNKNOWN" when none is present; a page
\* with both the no-problems and the problems phrase is OPERATIONAL.
C12_PriorityNotPosition ==
    called = "check_downdetector" =>
        /\ NoProblems => ret = "OPERATIONAL"
        /\ (~NoProblems /\ PossibleProblems) => ret = "POSSIBLE ISSUES"
        /\ (~NoProblems /\ ~PossibleProblems /\ Problems)
              => ret = "OUTAGE DETECTED"
        /\ (~NoProblems /\ ~PossibleProblems /\ ~Problems)
              => ret = "SUSPICIOUS / UNKNOWN"

C12_Witness ==
    /\ called = "check_downdetector"
    /\ arg_page = <<"user", "reports", "indicate", "problems">>
                  \o <<"user", "reports", "indicate", "no", "current",
                       "problems">>
    /\ ret = "OPERATIONAL"

\* C13: with a non-empty keyword list, check_generic returns OPERATIONAL
\* exactly when some keyword of the list, lowercased, is contained in the
\* lowercased page, and POTENTIAL OUTAGE otherwise.
C13_KeywordContainment ==
    (called = "check_generic" /\ arg_keywords # <<>>) =>
        IF \E k \in 1..Len(arg_keywords) :
              Contains(Lower(arg_keywords[k]), Lower(arg_page))
        THEN ret = "OPERATIONAL"
        ELSE ret = "POTENTIAL OUTAGE"

C13_Witness ==
    /\ called = "check_generic"
    /\ arg_page = <<"All", "Systems", "Operational">>
    /\ arg_keywords = << <<"all", "systems", "go">>, <<"operational">> >>
    /\ ret = "OPERATIONAL"

\* C14: check_generic given an empty keyword list returns no status: it
\* reports an error to its caller.
C14_EmptyKeywordsIsError ==
    (called = "check_generic" /\ arg_keywords = <<>>) =>
        ret \notin {"OPERATIONAL", "POTENTIAL OUTAGE"}

\* C15: the loop moves on to the next target only from the inter-target
\* delay of monitor.py:386, whatever the step before it did.
C15_DelayAfterEveryStep ==
    [][(pc' = "for" /\ idx' = idx + 1) => pc = "check_delay"]_vars

\* C16: when a step that classified its target ends, the email channel has
\* been called for that target once per change of its classified status,
\* a change back to an earlier status included; the step of a change has made
\* one call itself.
C16_EveryChangeFires ==
    Ended =>
        /\ email_calls[url] = changes[url]
        /\ (current_status # last_status /\ last_status # "initial")
              => /\ Attempts("email") = {1}
                 /\ changes[url] >= 1

C16_Witness ==
    /\ Ended
    /\ cycle = 3
    /\ url = "u_openai"
    /\ current_status = "OPERATIONAL"
    /\ last_status = "POTENTIAL OUTAGE"
    /\ changes[url] = 2
    /\ email_calls[url] = 2

\* C17: with no Slack webhook configured no webhook post is ever made; a step
\* that detects a transition still calls the email channel once, stores the
\* new status and goes on to the inter-target delay.
C17_SlackUnsetNeverPosts ==
    config.slack_webhook_url = "" =>
        /\ \A u \in Urls : slack_calls[u] = 0
        /\ Attempts("slack") = {}
        /\ (/\ Classified
            /\ pc \in {"store", "check_delay"}
            /\ current_status # last_status
            /\ last_status # "initial")
              => /\ Len(sent) = 1
                 /\ sent[1].channel = "email"
                 /\ (pc = "check_delay" => site_states[url] = current_status)
        /\ exc \in {"none", "SystemExit", "WebDriverException",
                    "KeyboardInterrupt", "ValueError"}

C17_Witness ==
    /\ config.slack_webhook_url = ""
    /\ Ended
    /\ Len(sent) = 1
    /\ sent[1].channel = "email"
    /\ site_states[url] = current_status
    /\ last_status # "initial"

\* the step of u has compared its statuses and not yet stored the new one,
\* or was cancelled there
InFlight(u) ==
    /\ idx \in 1..Len(TARGETS)
    /\ u = url
    /\ \/ pc \in {"email", "slack", "store"}
       \/ (exc = "KeyboardInterrupt"
           /\ raised_at \in {"email", "slack", "store"})

\* C18: the store does not exist before monitor.py:299 and has exactly the
\* target URLs as its keys from then on, all "initial" when the loop starts;
\* the entry of a target is the status of its last classification, or the
\* one before while the step that classified it has not stored yet, hence
\* "initial" only for a target never classified before.
C18_StoreOneEntryPerTarget ==
    IF pc \in {"validate", "init_states"} \/ exc = "SystemExit"
    THEN site_states = <<>>
    ELSE /\ DOMAIN site_states = Urls
         /\ (pc = "while" /\ cycle = 0)
               => \A u \in Urls : site_states[u] = "initial"
         /\ \A u \in Urls :
               /\ site_states[u] = (IF InFlight(u) THEN last_status
                                    ELSE observed[u])
               /\ (site_states[u] = "initial" /\ ~InFlight(u))
                     => observed[u] = "initial"
               /\ site_states[u] = "initial" => changes[u] = 0

C18_Witness ==
    /\ pc = "loop_delay"
    /\ cycle = 3
    /\ site_states["u_archive"] = "OUTAGE DETECTED"
    /\ site_states["u_openai"] = "OPERATIONAL"
    /\ site_states["u_custom"] = "initial"
    /\ changes["u_archive"] = 2
    /\ skipped["u_openai"] = "initial"

\* C20: while the step of a target runs, the store entry and the channel
\* calls of every other target are what that target's own classifications
\* made them; the step compares with its own target's entry and its channel
\* calls name its own target.
C20_TargetsIndependent ==
    pc \in {"email", "slack", "store", "check_delay"} =>
        /\ \A u \in Urls \ {url} :
              /\ site_states[u] = observed[u]
              /\ email_calls[u] = changes[u]
              /\ slack_calls[u] = (IF config.slack_webhook_url # ""
                                   THEN changes[u] ELSE 0)
        /\ (Classified /\ pc # "check_delay") => last_status = site_states[url]
        /\ \A i \in 1..Len(sent) :
              /\ sent[i].msg.url = url
              /\ sent[i].msg.site_name = TARGETS[idx].name

C20_Witness ==
    /\ Ended
    /\ url = "u_openai"
    /\ current_status = "POTENTIAL OUTAGE"
    /\ last_status = "OPERATIONAL"
    /\ Len(sent) = 2
    /\ site_states["u_archive"] = "OPERATIONAL"
    /\ email_calls["u_archive"] = 0
    /\ site_states["u_openai"] = "POTENTIAL OUTAGE"

Transition ==
    /\ step_result = "classified"
    /\ current_status # last_status
    /\ last_status # "initial"

\* the posts a transition makes to the webhook: one when a webhook URL is
\* configured, none otherwise
SlackDue == IF config.slack_webhook_url # "" THEN 1 ELSE 0

\* C21: in a step that detects a transition the effects come in one order:
\* while the email call is pending nothing has been sent and the store entry
\* is the previous status; while the Slack call is pending the email attempt
\* alone has been made and the entry is still the previous status; the entry
\* is written, to the new status, only once both calls have returned; a step
\* cancelled before that leaves the entry at the previous status.
C21_EmailThenSlackThenStore ==
    Transition =>
        /\ pc = "email" =>
              /\ sent = <<>>
              /\ site_states[url] = last_status
        /\ pc = "slack" =>
              /\ Len(sent) = 1
              /\ sent[1].channel = "email"
              /\ site_states[url] = last_status
        /\ pc = "store" =>
              /\ Len(sent) = 1 + SlackDue
              /\ sent[1].channel = "email"
              /\ SlackDue = 1 => sent[2].channel = "slack"
              /\ site_states[url] = last_status
        /\ pc = "check_delay" =>
              /\ Len(sent) = 1 + SlackDue
              /\ sent[1].channel = "email"
              /\ SlackDue = 1 => sent[2].channel = "slack"
              /\ site_states[url] = current_status
        /\ (exc = "KeyboardInterrupt"
            /\ raised_at \in {"email", "slack", "store"}) =>
              /\ site_states[url] = last_status
              /\ raised_at = "email" => sent = <<>>
              /\ raised_at = "slack" => Len(sent) = 1

C21_Witness ==
    /\ pc = "check_delay"
    /\ Transition
    /\ Len(sent) = 2
    /\ sent[1].channel = "email" /\ sent[1].ok
    /\ sent[2].channel = "slack" /\ ~sent[2].ok
    /\ site_states[url] = current_status
    /\ current_status = "OPERATIONAL"
    /\ last_status = "OUTAGE DETECTED"

====
